---- MODULE Spec2Model ----
(***************************************************************************)
(* Model of the AXS staking bot: the poll loop of AXSStakingBot.run, the   *)
(* buy -> withdraw -> stake pipeline, the signal evaluator                 *)
(* (check_price_conditions / calculate_rsi) and stop().                    *)
(*                                                                         *)
(* Floats are modelled as exact rationals [n, d] with d > 0; d = 0 is NaN  *)
(* (what numpy's mean of an empty list yields).  Prices are integers in a  *)
(* fixed tick unit.                                                        *)
(***************************************************************************)
EXTENDS Integers, Sequences, FiniteSets, TLC

VARIABLES bot, ref, sig, stops, lot

vars == <<bot, ref, sig, stops, lot>>

(* ------------------------------ bounds --------------------------------- *)
\* number of loop iterations of run() that are explored
MaxIter == 2
\* number of stop() calls that are explored
MaxStops == 2
\* longest candle series returned for the oscillator (the code asks for period + 1)
MaxKlines == 3
\* longest candle series returned for the 24h mean (the code asks for 24)
MaxAvgKlines == 2
\* highest price, in quote units, the order quantity is computed for
MaxLotPrice == 8
\* most decimal places of a LOT_SIZE stepSize
MaxPlaces == 2

(* --------------------------- program constants ------------------------- *)
\* config['BOT_SETTINGS']['usdt_amount']
usdt_amount == 10
\* config['BOT_SETTINGS']['check_interval']
check_interval == 300
\* asyncio.sleep(10) after a successful buy
SettleWait == 10
\* asyncio.sleep(900) after an accepted withdrawal
BridgeWait == 900
\* asyncio.sleep(60) in the loop-level handler
Cooldown == 60
\* rsi < 30
RsiThreshold == 30
\* avg_price * 0.95, as a percentage
PricePercent == 95

(* ------------------------------ rationals ------------------------------ *)
Rat(n, d) == [n |-> n, d |-> d]
NaN == Rat(0, 0)
IsNaN(x) == x.d = 0
RAdd(x, y) == IF IsNaN(x) \/ IsNaN(y) THEN NaN
              ELSE Rat(x.n * y.d + y.n * x.d, x.d * y.d)
RSub(x, y) == IF IsNaN(x) \/ IsNaN(y) THEN NaN
              ELSE Rat(x.n * y.d - y.n * x.d, x.d * y.d)
RMul(x, y) == IF IsNaN(x) \/ IsNaN(y) THEN NaN
              ELSE Rat(x.n * y.n, x.d * y.d)
RDiv(x, y) == IF IsNaN(x) \/ IsNaN(y) \/ y.n = 0 THEN NaN
              ELSE IF y.n > 0 THEN Rat(x.n * y.d, x.d * y.n)
              ELSE Rat(-(x.n * y.d), -(x.d * y.n))
\* comparisons with NaN are false, as for IEEE floats
RLess(x, y) == ~IsNaN(x) /\ ~IsNaN(y) /\ x.n * y.d < y.n * x.d
REq(x, y) == ~IsNaN(x) /\ ~IsNaN(y) /\ x.n * y.d = y.n * x.d
RLeq(x, y) == RLess(x, y) \/ REq(x, y)

RECURSIVE SumSeq(_)
SumSeq(s) == IF s = <<>> THEN 0 ELSE Head(s) + SumSeq(Tail(s))

\* np.mean: 0/0 (NaN) on an empty list
Mean(s) == Rat(SumSeq(s), Len(s))

SeqsUpTo(S, n) == UNION {[1..k -> S] : k \in 0..n}

(* ------------------------------ event log ------------------------------ *)
\* bot.log holds the events of the current loop iteration, in order:
\*   <<"call", name, arg>>   a call to the market client, the chain client or a stage
\*   <<"ret", name, v>>      what a call returned to run()
\*   <<"sleep", "sleep", n>> a completed asyncio.sleep(n)
\*   <<"log", text, 0>>      a logger call
\*   <<"notify", text, d>>   a telegram send_message; d = 1 iff it was delivered
Call(name, arg) == <<"call", name, arg>>
Ret(name, v) == <<"ret", name, v>>
Slept(n) == <<"sleep", "sleep", n>>
Logged(text) == <<"log", text, 0>>
\* a logger line that prints a quantity
LoggedQty(text, qty) == <<"log", text, qty>>

(* --------------------------- market responses -------------------------- *)
\* What the exchange does on one request: "ok" with data, "api" raises
\* BinanceAPIException, "exc" raises any other exception (network, parsing).
ApiErr == [kind |-> "api", closes |-> <<>>, price |-> 0]
OtherErr == [kind |-> "exc", closes |-> <<>>, price |-> 0]
KlinesOk(c) == [kind |-> "ok", closes |-> c, price |-> 0]
PriceOk(p) == [kind |-> "ok", closes |-> <<>>, price |-> p]

\* result of a wrapper: raised, or a value
Raised == [raised |-> TRUE, closes |-> <<>>, price |-> 0]
Closes(c) == [raised |-> FALSE, closes |-> c, price |-> 0]
Price(p) == [raised |-> FALSE, closes |-> <<>>, price |-> p]

\* BinanceClient.get_klines: the close prices of the formatted candles
get_klines(resp) ==
    IF resp.kind = "ok" THEN Closes(resp.closes)
    ELSE IF resp.kind = "api" THEN Closes(<<>>)
    ELSE Raised

\* BinanceClient.get_current_price
get_current_price(resp) ==
    IF resp.kind = "ok" THEN Price(resp.price)
    ELSE IF resp.kind = "api" THEN Price(0)
    ELSE Raised

\* changes[i] = close[i+1] - close[i]
Changes(c) == [i \in 1..(Len(c) - 1) |-> c[i + 1] - c[i]]
Gains(ch) == [i \in 1..Len(ch) |-> IF ch[i] > 0 THEN ch[i] ELSE 0]
Losses(ch) == [i \in 1..Len(ch) |-> IF ch[i] < 0 THEN -ch[i] ELSE 0]

\* same, with the losses left negative
calculate_rsi_signed(resp) ==
    LET k == get_klines(resp) IN
    IF k.raised \/ k.closes = <<>> THEN Rat(0, 1)
    ELSE LET changes == Changes(k.closes)
             avg_gain == Mean(Gains(changes))
             avg_loss == Mean([i \in 1..Len(changes) |->
                                 IF changes[i] < 0 THEN changes[i] ELSE 0])
         IN IF REq(avg_loss, Rat(0, 1)) THEN Rat(100, 1)
            ELSE RSub(Rat(100, 1),
                      RDiv(Rat(100, 1), RAdd(Rat(1, 1), RDiv(avg_gain, avg_loss))))

\* BinanceClient.calculate_rsi: never raises, 0.0 stands for every failure
calculate_rsi(resp) ==
    LET k == get_klines(resp) IN
    IF k.raised \/ k.closes = <<>> THEN Rat(0, 1)
    ELSE LET changes == Changes(k.closes)
             avg_gain == Mean(Gains(changes))
             avg_loss == Mean(Losses(changes))
         IN IF REq(avg_loss, Rat(0, 1)) THEN Rat(100, 1)
            ELSE RSub(Rat(100, 1),
                      RDiv(Rat(100, 1), RAdd(Rat(1, 1), RDiv(avg_gain, avg_loss))))

\* logger.error calls of the wrappers during one signal evaluation, in the
\* order of the fetches: get_klines, get_current_price, then (only when the
\* mean could be computed) the get_klines inside calculate_rsi
FetchLog(m) ==
    LET k == get_klines(m.klines)
        c == get_current_price(m.price)
    IN  (IF m.klines.kind = "api" THEN <<Logged("Fehler beim Abrufen der Kline-Daten")>>
         ELSE <<>>)
        \o (IF ~k.raised /\ m.price.kind = "api"
            THEN <<Logged("Fehler beim Abrufen des aktuellen Preises")>> ELSE <<>>)
        \o (IF k.raised \/ c.raised \/ k.closes = <<>> THEN <<>>
            ELSE IF m.rsi.kind = "api"
            THEN <<Logged("Fehler beim Abrufen der Kline-Daten")>>
            ELSE IF m.rsi.kind = "exc"
            THEN <<Logged("Fehler bei der RSI-Berechnung")>>
            ELSE <<>>)

\* same, with non-strict comparisons
check_price_conditions_leq(m) ==
    LET k == get_klines(m.klines)
        c == get_current_price(m.price)
    IN  IF k.raised \/ c.raised \/ k.closes = <<>>
        THEN [ret |-> FALSE, err |-> TRUE,
              ev |-> FetchLog(m) \o <<Logged("Fehler bei der Preisanalyse")>>]
        ELSE LET avg_price == Rat(SumSeq(k.closes), Len(k.closes))
                 rsi == calculate_rsi(m.rsi)
                 price_condition ==
                     RLeq(Rat(c.price, 1), RMul(avg_price, Rat(PricePercent, 100)))
                 rsi_condition == RLeq(rsi, Rat(RsiThreshold, 1))
             IN [ret |-> price_condition /\ rsi_condition, err |-> FALSE,
                 ev |-> FetchLog(m)]

\* AXSStakingBot.check_price_conditions; err: the except branch was taken
\* (a raised fetch, or sum(prices) / len(prices) on an empty list)
check_price_conditions(m) ==
    LET k == get_klines(m.klines)
        c == get_current_price(m.price)
    IN  IF k.raised \/ c.raised \/ k.closes = <<>>
        THEN [ret |-> FALSE, err |-> TRUE,
              ev |-> FetchLog(m) \o <<Logged("Fehler bei der Preisanalyse")>>]
        ELSE LET avg_price == Rat(SumSeq(k.closes), Len(k.closes))
                 rsi == calculate_rsi(m.rsi)
                 price_condition ==
                     RLess(Rat(c.price, 1), RMul(avg_price, Rat(PricePercent, 100)))
                 rsi_condition == RLess(rsi, Rat(RsiThreshold, 1))
             IN [ret |-> price_condition /\ rsi_condition, err |-> FALSE,
                 ev |-> FetchLog(m)]

(* ------------------------------ notifier ------------------------------- *)
\* TelegramNotifier.send_message: best effort, returns nothing and never
\* raises whether or not the message was delivered
send_message(text, delivered) == <<"notify", text, IF delivered THEN 1 ELSE 0>>

\* "if self.telegram: await self.telegram.send_message(text)"; b.delivers
\* tells whether the operator channel currently delivers
Notify(b, text) ==
    IF b.telegram THEN <<send_message(text, b.delivers)>> ELSE <<>>

(* ------------------------------ buy stage ------------------------------ *)
\* an executedQty string that Decimal() cannot parse
BadQty == -1
QtySet == {3, 5}
NoOrder == [status |-> "None", executedQty |-> 0]
Order(st, q) == [status |-> st, executedQty |-> q]

\* Decimal.quantize with the default ROUND_HALF_EVEN, to whole lot units
RoundHalfEven(n, d) ==
    LET q == n \div d
        r == n % d
    IN  IF 2 * r < d THEN q
        ELSE IF 2 * r > d THEN q + 1
        ELSE IF q % 2 = 0 THEN q ELSE q + 1

RECURSIVE Pow10(_)
Pow10(k) == IF k = 0 THEN 1 ELSE 10 * Pow10(k - 1)

\* place_market_buy, lines 103-109: usdt_amount / price quantized to the
\* exponent of stepSize (places decimal places); the result is in units of
\* 10^-places
order_quantity(amount, price, places) ==
    RoundHalfEven(amount * Pow10(places), price)

\* decimal places of the stepSize the pipeline runs are given
StepPlaces == 0

\* the events of the price fetch of place_market_buy
PriceFetchLog(resp, p) ==
    (IF resp.price.kind = "api"
     THEN <<Logged("Fehler beim Abrufen des aktuellen Preises")>> ELSE <<>>)
    \o <<Ret("get_current_price", p.price)>>

\* same, but a missing price is taken as 1
place_market_buy_default_price(amount, resp) ==
    LET p == get_current_price(resp.price)
        price == IF p.price = 0 THEN 1 ELSE p.price
    IN
    IF p.raised THEN [kind |-> "raise", order |-> NoOrder, ev |-> <<>>]
    ELSE LET fetch == PriceFetchLog(resp, p) IN
    IF resp.info = "exc" THEN [kind |-> "raise", order |-> NoOrder, ev |-> fetch]
    ELSE IF resp.info = "api"
         THEN [kind |-> "none", order |-> NoOrder,
               ev |-> fetch \o <<Logged("Fehler beim Platzieren der Kauforder")>>]
    ELSE LET quantity == order_quantity(amount, price, StepPlaces)
             submit == fetch \o <<Call("order_market_buy", quantity)>>
         IN  IF resp.exch = "exc"
             THEN [kind |-> "raise", order |-> NoOrder, ev |-> submit]
             ELSE IF resp.exch = "api"
             THEN [kind |-> "none", order |-> NoOrder,
                   ev |-> submit \o <<Logged("Fehler beim Platzieren der Kauforder")>>]
             ELSE [kind |-> "order", order |-> Order(resp.exch, resp.qty), ev |-> submit]

\* BinanceClient.place_market_buy.  resp.price: the price request,
\* resp.info: get_symbol_info, resp.exch / resp.qty: order_market_buy.
place_market_buy(amount, resp) ==
    LET p == get_current_price(resp.price) IN
    IF p.raised THEN [kind |-> "raise", order |-> NoOrder, ev |-> <<>>]
    ELSE LET fetch == PriceFetchLog(resp, p) IN
    IF p.price = 0 THEN [kind |-> "none", order |-> NoOrder, ev |-> fetch]
    ELSE IF resp.info = "exc" THEN [kind |-> "raise", order |-> NoOrder, ev |-> fetch]
    ELSE IF resp.info = "api"
         THEN [kind |-> "none", order |-> NoOrder,
               ev |-> fetch \o <<Logged("Fehler beim Platzieren der Kauforder")>>]
    ELSE LET quantity == order_quantity(amount, p.price, StepPlaces)
             submit == fetch \o <<Call("order_market_buy", quantity)>>
         IN  IF resp.exch = "exc"
             THEN [kind |-> "raise", order |-> NoOrder, ev |-> submit]
             ELSE IF resp.exch = "api"
             THEN [kind |-> "none", order |-> NoOrder,
                   ev |-> submit \o <<Logged("Fehler beim Platzieren der Kauforder")>>]
             ELSE [kind |-> "order", order |-> Order(resp.exch, resp.qty), ev |-> submit]

\* same, but a success message that was not delivered makes the stage fail
execute_buy_needs_delivery(b, amount, resp) ==
    LET r == place_market_buy(amount, resp)
        pre == <<Call("place_market_buy", amount)>> \o r.ev
    IN  IF r.kind = "raise"
        THEN [ret |-> NoOrder,
              ev |-> pre \o <<Logged("Fehler beim Kauf")>>
                         \o Notify(b, "Kaufversuch fehlgeschlagen")]
        ELSE IF r.kind = "order" /\ r.order.status = "FILLED"
        THEN [ret |-> IF b.telegram /\ ~b.delivers THEN NoOrder ELSE r.order,
              ev |-> pre \o <<LoggedQty("Kauf ausgefuehrt", r.order.executedQty)>>
                         \o Notify(b, "Kauf ausgefuehrt")]
        ELSE [ret |-> NoOrder, ev |-> pre]

\* same, but any order that is present counts as a success
execute_buy_any_status(b, amount, resp) ==
    LET r == place_market_buy(amount, resp)
        pre == <<Call("place_market_buy", amount)>> \o r.ev
    IN  IF r.kind = "raise"
        THEN [ret |-> NoOrder,
              ev |-> pre \o <<Logged("Fehler beim Kauf")>>
                         \o Notify(b, "Kaufversuch fehlgeschlagen")]
        ELSE IF r.kind = "order"
        THEN [ret |-> r.order,
              ev |-> pre \o <<LoggedQty("Kauf ausgefuehrt", r.order.executedQty)>>
                         \o Notify(b, "Kauf ausgefuehrt")]
        ELSE [ret |-> NoOrder, ev |-> pre]

\* AXSStakingBot.execute_buy
execute_buy(b, amount, resp) ==
    LET r == place_market_buy(amount, resp)
        pre == <<Call("place_market_buy", amount)>> \o r.ev
    IN  IF r.kind = "raise"
        THEN [ret |-> NoOrder,
              ev |-> pre \o <<Logged("Fehler beim Kauf")>>
                         \o Notify(b, "Kaufversuch fehlgeschlagen")]
        ELSE IF r.kind = "order" /\ r.order.status = "FILLED"
        THEN [ret |-> r.order,
              ev |-> pre \o <<LoggedQty("Kauf ausgefuehrt", r.order.executedQty)>>
                         \o Notify(b, "Kauf ausgefuehrt")]
        ELSE [ret |-> NoOrder, ev |-> pre]

(* ---------------------------- withdraw stage --------------------------- *)
\* the id of an accepted withdrawal; 0 stands for None
WithdrawalId == 7

\* BinanceClient.withdraw_to_ronin.  resp: "id" a withdrawal with an id,
\* "noid" a withdrawal without the 'id' key, "api" / "exc" as above.
withdraw_to_ronin(amount, resp) ==
    LET c == <<Call("withdraw", amount)>> IN
    IF resp = "exc" THEN [kind |-> "raise", ev |-> c]
    ELSE IF resp = "api"
    THEN [kind |-> "none", ev |-> c \o <<Logged("Fehler beim Withdrawal")>>]
    ELSE [kind |-> resp, ev |-> c]

\* AXSStakingBot.transfer_to_ronin
transfer_to_ronin(b, amount, resp) ==
    LET r == withdraw_to_ronin(amount, resp)
        ok == r.ev \o <<Logged("Transfer zu Ronin initiiert")>>
                   \o Notify(b, "Transfer zu Ronin initiiert")
    IN  IF r.kind = "raise"
        THEN [ret |-> 0,
              ev |-> r.ev \o <<Logged("Fehler beim Transfer")>>
                          \o Notify(b, "Transfer fehlgeschlagen")]
        ELSE IF r.kind = "id" THEN [ret |-> WithdrawalId, ev |-> ok]
        ELSE IF r.kind = "noid"
        THEN [ret |-> 0,
              ev |-> ok \o <<Logged("Fehler beim Transfer")>>
                        \o Notify(b, "Transfer fehlgeschlagen")]
        ELSE [ret |-> 0, ev |-> r.ev]

(* ------------------------------ stake stage ---------------------------- *)
\* the hash of a submitted staking transaction; 0 stands for None
StakeTx == 9

\* RoninClient.stake_axs: a transaction id, none, or an exception
ronin_stake_axs(amount, resp) ==
    [kind |-> resp, ev |-> <<Call("stake", amount)>>]

\* AXSStakingBot.stake_axs
stake_axs(b, amount, resp) ==
    LET r == ronin_stake_axs(amount, resp) IN
    IF r.kind = "exc"
    THEN [ret |-> 0,
          ev |-> r.ev \o <<Logged("Fehler beim Staking")>>
                      \o Notify(b, "Staking fehlgeschlagen")]
    ELSE IF r.kind = "tx"
    THEN [ret |-> StakeTx,
          ev |-> r.ev \o <<Logged("Staking erfolgreich")>>
                      \o Notify(b, "Staking erfolgreich")]
    ELSE [ret |-> 0, ev |-> r.ev]

(* ------------------------------ run() ---------------------------------- *)
\* bot.pc is the position of run(): "init" before the call, "poll" at the
\* while test, then the statement that is awaited next, "done" after the
\* loop.  usdt_balance, order and tx_hash are run()'s locals.  telegram
\* tells whether self.telegram is a notifier.  iter counts the iterations
\* begun and errors the entries of the loop-level handler (neither is
\* program state).
InitBot(tg, dl) ==
    [pc |-> "init", running |-> FALSE, telegram |-> tg, delivers |-> dl,
     usdt_balance |-> 0, order |-> NoOrder, tx_hash |-> 0, log |-> <<>>,
     iter |-> 0, errors |-> 0]

Truthy(order) == order # NoOrder

\* same, but an API error is raised again after it was logged
get_balance_reraises(resp) ==
    IF resp.kind = "ok" THEN Price(resp.price)
    ELSE Raised

\* BinanceClient.get_balance
get_balance(resp) ==
    IF resp.kind = "ok" THEN Price(resp.price)
    ELSE IF resp.kind = "api" THEN Price(0)
    ELSE Raised

\* the logger line of get_balance's handler
BalanceLog(resp) ==
    IF resp.kind = "api" THEN <<Logged("Fehler beim Abrufen des Kontostands")>>
    ELSE <<>>

\* run(), lines 144-147
run_start(b) ==
    [b EXCEPT !.running = TRUE,
              !.log = b.log \o <<Logged("Bot gestartet")>>
                            \o Notify(b, "Bot gestartet"),
              !.pc = "poll"]

\* same, but the gate lets a balance below the amount through
run_poll_no_gate(b, resp) ==
    IF ~b.running THEN [b EXCEPT !.pc = "done"]
    ELSE LET bal == get_balance(resp) IN
         IF bal.raised
         THEN [b EXCEPT !.iter = b.iter + 1,
                        !.log = <<Call("get_balance", 0)>> \o BalanceLog(resp),
                        !.pc = "handler"]
         ELSE [b EXCEPT !.iter = b.iter + 1,
                        !.usdt_balance = bal.price,
                        !.log = <<Call("get_balance", 0)>> \o BalanceLog(resp)
                                 \o <<Ret("get_balance", bal.price)>>,
                        !.pc = "evaluate"]

\* same, but a cleared flag pauses the loop instead of ending it
run_poll_waits(b, resp) ==
    IF ~b.running THEN b
    ELSE LET bal == get_balance(resp) IN
         IF bal.raised
         THEN [b EXCEPT !.iter = b.iter + 1,
                        !.log = <<Call("get_balance", 0)>> \o BalanceLog(resp),
                        !.pc = "handler"]
         ELSE [b EXCEPT !.iter = b.iter + 1,
                        !.usdt_balance = bal.price,
                        !.log = <<Call("get_balance", 0)>> \o BalanceLog(resp)
                                 \o <<Ret("get_balance", bal.price)>>,
                        !.pc = IF bal.price >= usdt_amount THEN "evaluate"
                               ELSE "sleep_interval"]

\* run(), lines 149-155: the while test, the balance read, the amount read
\* and the comparison; nothing is awaited between them that suspends
run_poll(b, resp) ==
    IF ~b.running THEN [b EXCEPT !.pc = "done"]
    ELSE LET bal == get_balance(resp) IN
         IF bal.raised
         THEN [b EXCEPT !.iter = b.iter + 1,
                        !.log = <<Call("get_balance", 0)>> \o BalanceLog(resp),
                        !.pc = "handler"]
         ELSE [b EXCEPT !.iter = b.iter + 1,
                        !.usdt_balance = bal.price,
                        !.log = <<Call("get_balance", 0)>> \o BalanceLog(resp)
                                 \o <<Ret("get_balance", bal.price)>>,
                        !.pc = IF bal.price >= usdt_amount THEN "evaluate"
                               ELSE "sleep_interval"]

\* run(), line 156
run_evaluate(b, m) ==
    LET r == check_price_conditions(m) IN
    [b EXCEPT !.log = b.log \o <<Call("check_price_conditions", 0)>> \o r.ev
                            \o <<Ret("check_price_conditions", IF r.ret THEN 1 ELSE 0)>>,
              !.pc = IF r.ret THEN "buy" ELSE "sleep_interval"]

\* same, but the stage raises again after it has logged and notified
run_buy_reraises(b, resp) ==
    LET r == execute_buy(b, usdt_amount, resp)
        raised == \E i \in 1..Len(r.ev) : r.ev[i] = Logged("Fehler beim Kauf")
    IN
    [b EXCEPT !.order = r.ret,
              !.log = b.log \o <<Call("execute_buy", usdt_amount)>> \o r.ev
                            \o <<Ret("execute_buy", IF Truthy(r.ret) THEN 1 ELSE 0)>>,
              !.pc = IF raised THEN "handler"
                     ELSE IF Truthy(r.ret) THEN "sleep10" ELSE "sleep_interval"]

\* same, but a buy that returned nothing is tried once more
run_buy_retries(b, resp) ==
    LET r == execute_buy(b, usdt_amount, resp)
        once == <<Call("execute_buy", usdt_amount)>> \o r.ev
                    \o <<Ret("execute_buy", IF Truthy(r.ret) THEN 1 ELSE 0)>>
    IN
    [b EXCEPT !.order = r.ret,
              !.log = b.log \o once \o (IF Truthy(r.ret) THEN <<>> ELSE once),
              !.pc = IF Truthy(r.ret) THEN "sleep10" ELSE "sleep_interval"]

\* run(), line 158
run_buy(b, resp) ==
    LET r == execute_buy(b, usdt_amount, resp) IN
    [b EXCEPT !.order = r.ret,
              !.log = b.log \o <<Call("execute_buy", usdt_amount)>> \o r.ev
                            \o <<Ret("execute_buy", IF Truthy(r.ret) THEN 1 ELSE 0)>>,
              !.pc = IF Truthy(r.ret) THEN "sleep10" ELSE "sleep_interval"]

\* same, but the settlement wait is left out
run_sleep10_skipped(b) ==
    [b EXCEPT !.pc = "transfer"]

\* run(), line 159
run_sleep10(b) ==
    [b EXCEPT !.log = b.log \o <<Slept(SettleWait)>>, !.pc = "transfer"]

\* same, but the pipeline is abandoned once the flag is false
run_transfer_checks_flag(b, resp) ==
    IF ~b.running THEN [b EXCEPT !.pc = "sleep_interval"]
    ELSE IF b.order.executedQty = BadQty THEN [b EXCEPT !.pc = "handler"]
    ELSE LET r == transfer_to_ronin(b, b.order.executedQty, resp) IN
         [b EXCEPT !.tx_hash = r.ret,
                   !.log = b.log \o <<Call("transfer_to_ronin", b.order.executedQty)>>
                                 \o r.ev
                                 \o <<Ret("transfer_to_ronin", r.ret)>>,
                   !.pc = IF r.ret # 0 THEN "sleep900" ELSE "sleep_interval"]

\* run(), line 162: Decimal(order['executedQty']) raises into the loop-level
\* handler when the quantity is not a number
run_transfer(b, resp) ==
    IF b.order.executedQty = BadQty THEN [b EXCEPT !.pc = "handler"]
    ELSE LET r == transfer_to_ronin(b, b.order.executedQty, resp) IN
         [b EXCEPT !.tx_hash = r.ret,
                   !.log = b.log \o <<Call("transfer_to_ronin", b.order.executedQty)>>
                                 \o r.ev
                                 \o <<Ret("transfer_to_ronin", r.ret)>>,
                   !.pc = IF r.ret # 0 THEN "sleep900" ELSE "sleep_interval"]

\* run(), line 163
run_sleep900(b) ==
    [b EXCEPT !.log = b.log \o <<Slept(BridgeWait)>>, !.pc = "stake"]

\* same, but the configured quote amount is staked
run_stake_quote_amount(b, resp) ==
    LET r == stake_axs(b, usdt_amount, resp) IN
    [b EXCEPT !.log = b.log \o <<Call("stake_axs", usdt_amount)>> \o r.ev
                            \o <<Ret("stake_axs", r.ret)>>,
              !.pc = "sleep_interval"]

\* run(), line 166
run_stake(b, resp) ==
    LET r == stake_axs(b, b.order.executedQty, resp) IN
    [b EXCEPT !.log = b.log \o <<Call("stake_axs", b.order.executedQty)>> \o r.ev
                            \o <<Ret("stake_axs", r.ret)>>,
              !.pc = "sleep_interval"]

\* run(), line 169
run_sleep_interval(b) ==
    [b EXCEPT !.log = b.log \o <<Slept(check_interval)>>, !.pc = "poll"]

\* same, but the loop gives up
run_handler_gives_up(b) ==
    [b EXCEPT !.errors = b.errors + 1,
              !.log = b.log \o <<Logged("Fehler im Hauptloop")>>
                            \o Notify(b, "Fehler aufgetreten"),
              !.pc = "done"]

\* run(), lines 171-174
run_handler(b) ==
    [b EXCEPT !.errors = b.errors + 1,
              !.log = b.log \o <<Logged("Fehler im Hauptloop")>>
                            \o Notify(b, "Fehler aufgetreten"),
              !.pc = "cooldown"]

\* run(), line 175
run_cooldown(b) ==
    [b EXCEPT !.log = b.log \o <<Slept(Cooldown)>>, !.pc = "poll"]

\* same, but the flag is flipped instead of cleared
stop_toggles(b) ==
    [b EXCEPT !.running = ~b.running,
              !.log = b.log \o <<Logged("Bot gestoppt")>>
                            \o Notify(b, "Bot gestoppt")]

\* AXSStakingBot.stop
stop(b) ==
    [b EXCEPT !.running = FALSE,
              !.log = b.log \o <<Logged("Bot gestoppt")>>
                            \o Notify(b, "Bot gestoppt")]

(* ------------------------------ inputs --------------------------------- *)
BalanceSet == {usdt_amount - 1, usdt_amount, usdt_amount + 5}
BalanceResponses == {PriceOk(v) : v \in BalanceSet} \cup {ApiErr, OtherErr}

\* close prices and current prices, in ticks
AvgCloseSet == {96, 100}
PriceSet == {94, 95, 96}
RsiCloseSet == {93, 96, 100, 103}

KlinesResponses(S, n) == {KlinesOk(c) : c \in SeqsUpTo(S, n)} \cup {ApiErr, OtherErr}
PriceResponses == {PriceOk(v) : v \in PriceSet} \cup {ApiErr, OtherErr}

\* the three fetches of one signal evaluation
MarketInputs ==
    [klines : KlinesResponses(AvgCloseSet, MaxAvgKlines),
     price : PriceResponses,
     rsi : KlinesResponses(RsiCloseSet, MaxKlines)]

\* the evaluations the poll loop is run against
MarketCases ==
    [klines : {KlinesOk(<<100, 100>>), ApiErr},
     price : {PriceOk(94), PriceOk(96), OtherErr},
     rsi : {KlinesOk(<<103, 93>>), KlinesOk(<<93, 103>>), ApiErr}]

BuyResponses ==
    [price : {PriceOk(4), ApiErr, OtherErr},
     info : {"ok", "api", "exc"},
     exch : {"FILLED", "EXPIRED", "api", "exc"},
     qty : QtySet \cup {BadQty}]

WithdrawResponses == {"id", "noid", "api", "exc"}
StakeResponses == {"tx", "none", "exc"}

(* ------------------------------ actions -------------------------------- *)
SigIdle ==
    [pc |-> "idle", m |-> [klines |-> ApiErr, price |-> ApiErr, rsi |-> ApiErr],
     result |-> FALSE, err |-> FALSE, rsi |-> Rat(0, 1)]

LotIdle ==
    [pc |-> "idle", amount |-> 0, price |-> 1, places |-> 0, quantity |-> 0]

Init ==
    /\ bot \in {InitBot(FALSE, TRUE), InitBot(TRUE, TRUE), InitBot(TRUE, FALSE)}
    /\ ref = InitBot(FALSE, TRUE)
    /\ sig = SigIdle
    /\ stops = 0
    /\ lot = LotIdle

\* the iteration bound of the model
MayPoll(b) == b.running => b.iter < MaxIter

Start ==
    /\ bot.pc = "init"
    /\ bot' = run_start(bot)
    /\ UNCHANGED <<ref, sig, stops, lot>>

Poll ==
    /\ bot.pc = "poll" /\ MayPoll(bot)
    /\ \E resp \in BalanceResponses : bot' = run_poll(bot, resp)
    /\ UNCHANGED <<ref, sig, stops, lot>>

Evaluate ==
    /\ bot.pc = "evaluate"
    /\ \E m \in MarketCases : bot' = run_evaluate(bot, m)
    /\ UNCHANGED <<ref, sig, stops, lot>>

ExecuteBuy ==
    /\ bot.pc = "buy"
    /\ \E resp \in BuyResponses : bot' = run_buy(bot, resp)
    /\ UNCHANGED <<ref, sig, stops, lot>>

Sleep10 ==
    /\ bot.pc = "sleep10"
    /\ bot' = run_sleep10(bot)
    /\ UNCHANGED <<ref, sig, stops, lot>>

Transfer ==
    /\ bot.pc = "transfer"
    /\ \E resp \in WithdrawResponses : bot' = run_transfer(bot, resp)
    /\ UNCHANGED <<ref, sig, stops, lot>>

Sleep900 ==
    /\ bot.pc = "sleep900"
    /\ bot' = run_sleep900(bot)
    /\ UNCHANGED <<ref, sig, stops, lot>>

Stake ==
    /\ bot.pc = "stake"
    /\ \E resp \in StakeResponses : bot' = run_stake(bot, resp)
    /\ UNCHANGED <<ref, sig, stops, lot>>

SleepInterval ==
    /\ bot.pc = "sleep_interval"
    /\ bot' = run_sleep_interval(bot)
    /\ UNCHANGED <<ref, sig, stops, lot>>

Handler ==
    /\ bot.pc = "handler"
    /\ bot' = run_handler(bot)
    /\ UNCHANGED <<ref, sig, stops, lot>>

CooldownSleep ==
    /\ bot.pc = "cooldown"
    /\ bot' = run_cooldown(bot)
    /\ UNCHANGED <<ref, sig, stops, lot>>

\* stop() called from another task; it can run whenever run() is suspended
Stop ==
    /\ stops < MaxStops
    /\ bot' = stop(bot)
    /\ stops' = stops + 1
    /\ UNCHANGED <<ref, sig, lot>>

Next ==
    \/ Start \/ Poll \/ Evaluate \/ ExecuteBuy \/ Sleep10 \/ Transfer
    \/ Sleep900 \/ Stake \/ SleepInterval \/ Handler \/ CooldownSleep \/ Stop

Spec == Init /\ [][Next]_vars

\* a step of run(): every awaited call and every sleep eventually returns
RunStep ==
    \/ Start \/ Poll \/ Evaluate \/ ExecuteBuy \/ Sleep10 \/ Transfer
    \/ Sleep900 \/ Stake \/ SleepInterval \/ Handler \/ CooldownSleep

SpecLive == Init /\ [][Next]_vars /\ WF_vars(RunStep)

(* ----------------- the signal evaluator on its own --------------------- *)
InitSignal ==
    /\ bot = InitBot(FALSE, TRUE)
    /\ ref = InitBot(FALSE, TRUE)
    /\ stops = 0
    /\ lot = LotIdle
    /\ sig \in {[SigIdle EXCEPT !.pc = "in", !.m = m] : m \in MarketInputs}

EvalSignal ==
    /\ sig.pc = "in"
    /\ LET r == check_price_conditions(sig.m) IN
       sig' = [sig EXCEPT !.pc = "out", !.result = r.ret, !.err = r.err,
                          !.rsi = calculate_rsi(sig.m.rsi)]
    /\ UNCHANGED <<bot, ref, stops, lot>>

NextSignal == EvalSignal

SpecSignal == InitSignal /\ [][NextSignal]_vars

\* the quantity computation of place_market_buy on its own
AmountSet == {usdt_amount - 1, usdt_amount, usdt_amount + 1}

InitBuy ==
    /\ bot = InitBot(FALSE, TRUE)
    /\ ref = InitBot(FALSE, TRUE)
    /\ stops = 0
    /\ sig = SigIdle
    /\ lot \in {[LotIdle EXCEPT !.pc = "in", !.amount = a, !.price = p, !.places = k] :
                   a \in AmountSet, p \in 1..MaxLotPrice, k \in 0..MaxPlaces}

ComputeQuantity ==
    /\ lot.pc = "in"
    /\ lot' = [lot EXCEPT !.pc = "out",
                          !.quantity = order_quantity(lot.amount, lot.price, lot.places)]
    /\ UNCHANGED <<bot, ref, sig, stops>>

NextBuy == ComputeQuantity

SpecBuy == InitBuy /\ [][NextBuy]_vars

(* ------- two runs on the same responses, ref without a notifier -------- *)
\* bot and ref receive the same market and chain responses and the same
\* stop() calls; ref.telegram is None, bot.telegram is None or a notifier
\* whose channel delivers or does not.
PairStart ==
    /\ bot.pc = "init" /\ ref.pc = "init"
    /\ bot' = run_start(bot) /\ ref' = run_start(ref)
    /\ UNCHANGED <<sig, stops, lot>>

PairPoll ==
    /\ bot.pc = "poll" /\ ref.pc = "poll" /\ MayPoll(bot) /\ MayPoll(ref)
    /\ \E resp \in BalanceResponses :
          bot' = run_poll(bot, resp) /\ ref' = run_poll(ref, resp)
    /\ UNCHANGED <<sig, stops, lot>>

PairEvaluate ==
    /\ bot.pc = "evaluate" /\ ref.pc = "evaluate"
    /\ \E m \in MarketCases : bot' = run_evaluate(bot, m) /\ ref' = run_evaluate(ref, m)
    /\ UNCHANGED <<sig, stops, lot>>

PairExecuteBuy ==
    /\ bot.pc = "buy" /\ ref.pc = "buy"
    /\ \E resp \in BuyResponses :
          bot' = run_buy(bot, resp) /\ ref' = run_buy(ref, resp)
    /\ UNCHANGED <<sig, stops, lot>>

PairSleep10 ==
    /\ bot.pc = "sleep10" /\ ref.pc = "sleep10"
    /\ bot' = run_sleep10(bot) /\ ref' = run_sleep10(ref)
    /\ UNCHANGED <<sig, stops, lot>>

PairTransfer ==
    /\ bot.pc = "transfer" /\ ref.pc = "transfer"
    /\ \E resp \in WithdrawResponses :
          bot' = run_transfer(bot, resp) /\ ref' = run_transfer(ref, resp)
    /\ UNCHANGED <<sig, stops, lot>>

PairSleep900 ==
    /\ bot.pc = "sleep900" /\ ref.pc = "sleep900"
    /\ bot' = run_sleep900(bot) /\ ref' = run_sleep900(ref)
    /\ UNCHANGED <<sig, stops, lot>>

PairStake ==
    /\ bot.pc = "stake" /\ ref.pc = "stake"
    /\ \E resp \in StakeResponses :
          bot' = run_stake(bot, resp) /\ ref' = run_stake(ref, resp)
    /\ UNCHANGED <<sig, stops, lot>>

PairSleepInterval ==
    /\ bot.pc = "sleep_interval" /\ ref.pc = "sleep_interval"
    /\ bot' = run_sleep_interval(bot) /\ ref' = run_sleep_interval(ref)
    /\ UNCHANGED <<sig, stops, lot>>

PairHandler ==
    /\ bot.pc = "handler" /\ ref.pc = "handler"
    /\ bot' = run_handler(bot) /\ ref' = run_handler(ref)
    /\ UNCHANGED <<sig, stops, lot>>

PairCooldownSleep ==
    /\ bot.pc = "cooldown" /\ ref.pc = "cooldown"
    /\ bot' = run_cooldown(bot) /\ ref' = run_cooldown(ref)
    /\ UNCHANGED <<sig, stops, lot>>

PairStop ==
    /\ stops < MaxStops
    /\ bot' = stop(bot) /\ ref' = stop(ref)
    /\ stops' = stops + 1
    /\ UNCHANGED <<sig, lot>>

NextPair ==
    \/ PairStart \/ PairPoll \/ PairEvaluate \/ PairExecuteBuy \/ PairSleep10
    \/ PairTransfer \/ PairSleep900 \/ PairStake \/ PairSleepInterval
    \/ PairHandler \/ PairCooldownSleep \/ PairStop

SpecPair == Init /\ [][NextPair]_vars

(* ------------------------- reading the event log ----------------------- *)
Has(log, e) == \E i \in 1..Len(log) : log[i] = e
HasCall(log, name) == \E i \in 1..Len(log) : log[i][1] = "call" /\ log[i][2] = name
HasNotify(log, text) == \E i \in 1..Len(log) : log[i][1] = "notify" /\ log[i][2] = text
HasLogged(log, text) == Has(log, Logged(text))
IsCallOrRet(e) == e[1] \in {"call", "ret"}
CallsOf(log) == SelectSeq(log, IsCallOrRet)
\* the events of run() itself, without those of stop()
IsRunEvent(e) == e[2] # "Bot gestoppt"
RunLog(log) == SelectSeq(log, IsRunEvent)
IsRunNotify(e) == e[1] = "notify" /\ e[2] # "Bot gestoppt"

(* ------------------------------ claims --------------------------------- *)
IsWithdrawCall(e) == e[1] = "call" /\ e[2] \in {"transfer_to_ronin", "withdraw"}
IsStakeCall(e) == e[1] = "call" /\ e[2] \in {"stake_axs", "stake"}

\* C1: in every iteration the withdrawal is called only after execute_buy of
\* that iteration returned an order with status FILLED, the stake only after
\* transfer_to_ronin of that iteration returned a withdrawal id, and nothing
\* later in the pipeline is called once a stage has returned None.
PipelineMonotone ==
    LET log == bot.log IN
    \A i \in 1..Len(log) :
        /\ IsWithdrawCall(log[i]) =>
              /\ \E j \in 1..(i - 1) : log[j] = Ret("execute_buy", 1)
              /\ bot.order.status = "FILLED"
        /\ IsStakeCall(log[i]) =>
              /\ \E j \in 1..(i - 1) : log[j] = Ret("transfer_to_ronin", WithdrawalId)
              /\ bot.tx_hash = WithdrawalId
        /\ log[i] = Ret("execute_buy", 0) =>
              \A j \in (i + 1)..Len(log) : ~IsWithdrawCall(log[j]) /\ ~IsStakeCall(log[j])
        /\ log[i] = Ret("transfer_to_ronin", 0) =>
              \A j \in (i + 1)..Len(log) : ~IsStakeCall(log[j])

\* a whole pipeline has run: buy, withdrawal and stake were all called
PipelineCompleted ==
    /\ HasCall(bot.log, "order_market_buy")
    /\ HasCall(bot.log, "withdraw")
    /\ HasCall(bot.log, "stake")

IsFetchError(e) ==
    e \in {Logged("Fehler beim Abrufen der Kline-Daten"),
           Logged("Fehler beim Abrufen des aktuellen Preises"),
           Logged("Fehler bei der RSI-Berechnung"),
           Logged("Fehler bei der Preisanalyse")}

\* C2: when a market-data fetch of the signal evaluation fails,
\* check_price_conditions returns false and no buy is attempted in that
\* iteration.
SignalFailClosed ==
    LET log == bot.log IN
    \A i \in 1..Len(log) :
        (log[i][1] = "ret" /\ log[i][2] = "check_price_conditions"
            /\ \E j \in 1..(i - 1) : IsFetchError(log[j]))
        => /\ log[i][3] = 0
           /\ ~HasCall(log, "execute_buy")

\* C3: with the notifier enabled, a stage that ended without a positive
\* confirmation has sent its failure notification by the time control is
\* back in the poll loop.
StageFailureNotified ==
    (bot.telegram /\ bot.pc = "sleep_interval") =>
        /\ Has(bot.log, Ret("execute_buy", 0))
              => HasNotify(bot.log, "Kaufversuch fehlgeschlagen")
        /\ Has(bot.log, Ret("transfer_to_ronin", 0))
              => HasNotify(bot.log, "Transfer fehlgeschlagen")
        /\ Has(bot.log, Ret("stake_axs", 0))
              => HasNotify(bot.log, "Staking fehlgeschlagen")

LastRunEvent(log) == RunLog(log)[Len(RunLog(log))]

\* C4: an exception that reaches run() is logged and reported to the
\* notifier, then the loop sleeps exactly 60 and is back at the while test;
\* while running is true the next iteration begins there, and run() returns
\* only from the while test, with running false after a stop().
LoopResilient ==
    [][/\ (bot.pc = "handler" /\ bot'.pc # "handler") =>
             /\ bot'.pc = "cooldown"
             /\ bot'.log = bot.log \o <<Logged("Fehler im Hauptloop")>>
                    \o (IF bot.telegram
                        THEN <<send_message("Fehler aufgetreten", bot.delivers)>>
                        ELSE <<>>)
       /\ (bot.pc = "cooldown" /\ bot'.pc # "cooldown") =>
             /\ bot'.pc = "poll"
             /\ bot'.log = Append(bot.log, Slept(60))
       /\ (bot.pc = "poll" /\ bot.running /\ bot'.pc # "poll") =>
             /\ bot'.pc \in {"evaluate", "sleep_interval", "handler"}
             /\ bot'.iter = bot.iter + 1
             /\ bot'.log[1] = Call("get_balance", 0)
       /\ (bot'.pc = "done" /\ bot.pc # "done") =>
             /\ bot.pc = "poll"
             /\ ~bot.running
             /\ stops > 0
      ]_vars

\* the loop is back at the while test after its second failure in a row,
\* having slept 60 again
SecondCooldownDone ==
    /\ bot.pc = "poll" /\ bot.running
    /\ bot.errors = 2 /\ bot.iter = 2
    /\ LastRunEvent(bot.log) = Slept(60)

StageErrorLogged(log) ==
    \/ HasLogged(log, "Fehler beim Kauf")
    \/ HasLogged(log, "Fehler beim Transfer")
    \/ HasLogged(log, "Fehler beim Staking")

\* C5: an exception inside a stage is turned into a None return by the
\* stage; the iteration never enters the loop-level handler (no loop-level
\* log entry, notification or 60 cooldown) and ends with the check_interval
\* sleep.
StageErrorsStayLocal ==
    LET log == bot.log IN
    StageErrorLogged(log) =>
        /\ bot.pc \in {"sleep_interval", "poll", "done"}
        /\ ~HasLogged(log, "Fehler im Hauptloop")
        /\ ~HasNotify(log, "Fehler aufgetreten")
        /\ ~Has(log, Slept(Cooldown))
        /\ \/ Has(log, Ret("execute_buy", 0))
           \/ Has(log, Ret("transfer_to_ronin", 0))
           \/ Has(log, Ret("stake_axs", 0))
        /\ bot.pc \in {"poll", "done"} => LastRunEvent(log) = Slept(check_interval)

\* an iteration whose stake stage raised has ended with the interval sleep
StakeErrorIterationEnded ==
    /\ bot.pc = "poll"
    /\ HasLogged(bot.log, "Fehler beim Staking")
    /\ LastRunEvent(bot.log) = Slept(check_interval)

\* C6: on the same market and chain responses, the run with a notifier
\* (delivering or not) is at the same position and has made the same calls
\* with the same results, in the same order, as the run without a notifier.
NotifierIndependent ==
    /\ bot.pc = ref.pc
    /\ bot.running = ref.running
    /\ CallsOf(bot.log) = CallsOf(ref.log)

\* a filled buy whose success message was not delivered was followed by the
\* withdrawal
UndeliveredBuyThenWithdraw ==
    /\ bot.telegram
    /\ Has(bot.log, send_message("Kauf ausgefuehrt", FALSE))
    /\ HasCall(bot.log, "withdraw")
    /\ HasCall(ref.log, "withdraw")

IsRet(e, name) == e[1] = "ret" /\ e[2] = name

\* C7: in an iteration whose balance is below the trade amount nothing is
\* evaluated, bought or notified and the iteration ends with the
\* check_interval sleep; after a false decision no buy is placed; a buy is
\* placed only after a balance >= amount and a true decision.
DecisionGate ==
    LET log == bot.log IN
    /\ \A i \in 1..Len(log) :
          (IsRet(log[i], "get_balance") /\ log[i][3] < usdt_amount) =>
              /\ ~HasCall(log, "check_price_conditions")
              /\ ~HasCall(log, "execute_buy")
              /\ ~HasCall(log, "order_market_buy")
              /\ \A j \in 1..Len(log) : ~IsRunNotify(log[j])
              /\ bot.pc \in {"sleep_interval", "poll", "done"}
              /\ bot.pc \in {"poll", "done"} => LastRunEvent(log) = Slept(check_interval)
    /\ Has(log, Ret("check_price_conditions", 0)) =>
          ~HasCall(log, "execute_buy") /\ ~HasCall(log, "order_market_buy")
    /\ \A i \in 1..Len(log) :
          (log[i][1] = "call" /\ log[i][2] \in {"execute_buy", "order_market_buy"}) =>
              /\ \E j \in 1..(i - 1) : log[j] = Ret("check_price_conditions", 1)
              /\ \E j \in 1..(i - 1) :
                    IsRet(log[j], "get_balance") /\ log[j][3] >= usdt_amount

\* an iteration with an insufficient balance has ended, notifier enabled
InsufficientIterationEnded ==
    /\ bot.telegram /\ bot.pc = "poll" /\ bot.running
    /\ Has(bot.log, Ret("get_balance", usdt_amount - 1))
    /\ LastRunEvent(bot.log) = Slept(check_interval)

\* the mean of the fetched closes exists and the fetched current price is
\* strictly below 95% of it: price < 0.95 * sum / len
PriceBelow95(m) ==
    LET k == get_klines(m.klines)
        c == get_current_price(m.price)
    IN  /\ ~k.raised /\ ~c.raised /\ Len(k.closes) > 0
        /\ 100 * c.price * Len(k.closes) < 95 * SumSeq(k.closes)

PriceAt95(m) ==
    LET k == get_klines(m.klines)
        c == get_current_price(m.price)
    IN  /\ ~k.raised /\ ~c.raised /\ Len(k.closes) > 0
        /\ 100 * c.price * Len(k.closes) = 95 * SumSeq(k.closes)

RECURSIVE Moves(_, _)
Moves(c, dir) ==
    IF Len(c) < 2 THEN 0
    ELSE (IF dir * (c[2] - c[1]) > 0 THEN dir * (c[2] - c[1]) ELSE 0)
         + Moves(Tail(c), dir)

\* C9: for a series of at least two closes the oscillator is in [0, 100],
\* it is 100 when there are no losses, and otherwise it is
\* 100 - 100 / (1 + avgGain / avgLoss) = 100 * gains / (gains + losses).
OscillatorBounds ==
    (sig.pc = "out" /\ sig.m.rsi.kind = "ok" /\ Len(sig.m.rsi.closes) >= 2) =>
        LET G == Moves(sig.m.rsi.closes, 1)
            L == Moves(sig.m.rsi.closes, -1)
            r == sig.rsi
        IN  /\ r.d > 0
            /\ 0 <= r.n /\ r.n <= 100 * r.d
            /\ L = 0 => r.n = 100 * r.d
            /\ L > 0 => r.n * (G + L) = 100 * G * r.d

\* a series with gains and losses: the oscillator is strictly inside (0, 100)
OscillatorInside ==
    /\ sig.pc = "out" /\ sig.m.rsi.kind = "ok"
    /\ Moves(sig.m.rsi.closes, 1) > 0 /\ Moves(sig.m.rsi.closes, -1) > 0
    /\ 0 < sig.rsi.n /\ sig.rsi.n < 100 * sig.rsi.d

\* C10: stop() only clears the flag.  A pipeline in flight goes on: after
\* the settlement wait the withdrawal is called and after the bridge wait
\* the stake is called, whatever the flag.  Once the flag is false no new
\* iteration begins: no balance read, and the loop leaves at the while test.
StopCooperative ==
    [][/\ (bot.pc = "sleep10" /\ bot'.pc # "sleep10") => bot'.pc = "transfer"
       /\ (bot.pc = "transfer" /\ bot'.pc # "transfer"
              /\ bot.order.executedQty # BadQty) =>
             /\ Len(bot'.log) > Len(bot.log)
             /\ bot'.log[Len(bot.log) + 1] = Call("transfer_to_ronin", bot.order.executedQty)
             /\ HasCall(bot'.log, "withdraw")
       /\ (bot.pc = "sleep900" /\ bot'.pc # "sleep900") => bot'.pc = "stake"
       /\ (bot.pc = "stake" /\ bot'.pc # "stake") =>
             /\ Len(bot'.log) > Len(bot.log)
             /\ bot'.log[Len(bot.log) + 1] = Call("stake_axs", bot.order.executedQty)
             /\ HasCall(bot'.log, "stake")
       /\ (bot.running /\ ~bot'.running) =>
             /\ bot'.pc = bot.pc
             /\ bot'.order = bot.order /\ bot'.tx_hash = bot.tx_hash
       /\ (~bot.running /\ bot.pc # "init") =>
             /\ bot'.iter = bot.iter
             /\ ~bot'.running
             /\ bot.pc = "poll" => bot'.pc \in {"poll", "done"}
      ]_vars

\* stop() ran during the settlement wait of a filled buy, and the withdrawal
\* and the stake were still called
StoppedPipelineCompleted ==
    LET log == bot.log IN
    /\ ~bot.running
    /\ \E i, j, k \in 1..Len(log) :
          /\ i < j /\ j < k
          /\ log[i] = Ret("execute_buy", 1)
          /\ log[j] = Logged("Bot gestoppt")
          /\ log[k][1] = "call" /\ log[k][2] = "withdraw"
    /\ HasCall(log, "stake")


\* C11: once stop() has cleared the flag of a started run(), and every
\* awaited call and sleep returns, run() eventually returns.
TerminatesOnStop ==
    (bot.pc # "init" /\ ~bot.running) ~> (bot.pc = "done")

\* run() has returned after a stop() that arrived during the 60 cooldown
StoppedDuringCooldown ==
    LET log == bot.log IN
    /\ bot.pc = "done"
    /\ \E i \in 1..Len(log) :
          /\ log[i] = Logged("Fehler im Hauptloop")
          /\ \E j \in (i + 1)..Len(log) :
                /\ log[j] = Logged("Bot gestoppt")
                /\ \E k \in (j + 1)..Len(log) : log[k] = Slept(Cooldown)


\* C12: stop() on a controller that is already stopped (running false)
\* changes nothing of the controller: running stays false and run()'s
\* position and locals are untouched; what it emits is one more "Bot
\* gestoppt" log line and announcement, placed after everything emitted
\* before.
StopIdempotent ==
    [][(stops' = stops + 1 /\ ~bot.running) =>
          bot' = [bot EXCEPT
                    !.log = bot.log \o <<Logged("Bot gestoppt")>>
                               \o (IF bot.telegram
                                   THEN <<send_message("Bot gestoppt", bot.delivers)>>
                                   ELSE <<>>)]
      ]_vars

\* stop() was called twice in a row with the notifier enabled: the log
\* ends with the two announcements
StoppedTwice ==
    LET log == bot.log
        n == Len(log)
    IN  /\ bot.telegram /\ stops = 2 /\ ~bot.running /\ n >= 4
        /\ log[n][1] = "notify" /\ log[n][2] = "Bot gestoppt"
        /\ log[n - 2][1] = "notify" /\ log[n - 2][2] = "Bot gestoppt"


\* the calls that carry the amount to withdraw or to stake
IsAmountCall(e) ==
    e[1] = "call" /\ e[2] \in {"transfer_to_ronin", "withdraw", "stake_axs", "stake"}

\* C13: the amount of every withdrawal call and of every stake call is the
\* executed quantity of the order the buy stage returned earlier in the
\* same iteration.
AmountPropagated ==
    \A i \in 1..Len(bot.log) :
        IsAmountCall(bot.log[i]) =>
            /\ bot.log[i][3] = bot.order.executedQty
            /\ \E j \in 1..(i - 1) :
                  bot.log[j] = LoggedQty("Kauf ausgefuehrt", bot.log[i][3])

\* the second iteration bought, withdrew and staked the quantity its own
\* order reported
SecondRunStakedOwnQuantity ==
    /\ bot.iter = 2
    /\ \E q \in QtySet :
          /\ Has(bot.log, LoggedQty("Kauf ausgefuehrt", q))
          /\ Has(bot.log, Call("withdraw", q))
          /\ Has(bot.log, Call("stake", q))


IsStageCall(e, name) == e[1] = "call" /\ e[2] = name
IsFailedStage(e) ==
    e \in {Ret("execute_buy", 0), Ret("transfer_to_ronin", 0), Ret("stake_axs", 0)}

\* C14: in what run() does in one iteration, the 10 wait directly follows
\* the return of a successful buy and the withdrawal stage directly
\* follows that wait; the 900 wait directly follows the return of an
\* accepted withdrawal and the stake stage directly follows that wait; and
\* after a stage has failed neither wait is performed.
WaitsBetweenStages ==
    LET r == RunLog(bot.log) IN
    \A i \in 1..Len(r) :
        /\ r[i] = Slept(SettleWait) =>
              i > 1 /\ r[i - 1] = Ret("execute_buy", 1)
        /\ r[i] = Slept(BridgeWait) =>
              i > 1 /\ r[i - 1] = Ret("transfer_to_ronin", WithdrawalId)
        /\ IsStageCall(r[i], "transfer_to_ronin") =>
              i > 1 /\ r[i - 1] = Slept(SettleWait)
        /\ IsStageCall(r[i], "stake_axs") =>
              i > 1 /\ r[i - 1] = Slept(BridgeWait)
        /\ IsStageCall(r[i], "withdraw") =>
              \E j \in 1..(i - 1) : r[j] = Slept(SettleWait)
        /\ IsStageCall(r[i], "stake") =>
              \E j \in 1..(i - 1) : r[j] = Slept(BridgeWait)
        /\ IsFailedStage(r[i]) =>
              \A j \in (i + 1)..Len(r) :
                  r[j] \notin {Slept(SettleWait), Slept(BridgeWait)}

\* both waits were performed and the stake call was issued, with a stop()
\* arriving during the 900 wait
StakedAfterBothWaits ==
    LET log == bot.log IN
    \E i \in 1..Len(log) :
        /\ log[i] = Ret("transfer_to_ronin", WithdrawalId)
        /\ i < Len(log) /\ log[i + 1] = Logged("Bot gestoppt")
        /\ \E j \in (i + 1)..Len(log) :
              /\ log[j] = Slept(BridgeWait)
              /\ \E k \in (j + 1)..Len(log) : IsStageCall(log[k], "stake")
        /\ Has(log, Slept(SettleWait))


\* the number of calls of a stage in an event sequence
RECURSIVE CountCalls(_, _)
CountCalls(log, name) ==
    IF log = <<>> THEN 0
    ELSE (IF IsStageCall(Head(log), name) THEN 1 ELSE 0) + CountCalls(Tail(log), name)

StageNames ==
    {"execute_buy", "place_market_buy", "order_market_buy",
     "transfer_to_ronin", "withdraw", "stake_axs", "stake"}

\* C15: within one iteration each of buy, withdraw and stake (and the
\* exchange or chain call below it) is invoked at most once; every
\* iteration begins with the balance read, and every withdrawal or stake
\* call comes after the return of a filled buy of the same iteration.
NoRetryNoResume ==
    LET log == bot.log IN
    /\ \A name \in StageNames : CountCalls(log, name) <= 1
    /\ bot.iter >= 1 => log[1] = Call("get_balance", 0)
    /\ \A i \in 1..Len(log) :
          (\/ IsStageCall(log[i], "transfer_to_ronin") \/ IsStageCall(log[i], "withdraw")
           \/ IsStageCall(log[i], "stake_axs") \/ IsStageCall(log[i], "stake")) =>
              \E j \in 1..(i - 1) : log[j] = Ret("execute_buy", 1)
    /\ (bot.pc \in {"sleep10", "transfer", "sleep900", "stake"}) =>
          Has(log, Ret("execute_buy", 1))

\* the stake of the second iteration failed and the iteration went back to
\* the while test with one call of the buy and one of the stake
FailedStakeNotRetried ==
    /\ bot.iter = 2 /\ bot.pc = "poll"
    /\ Has(bot.log, Ret("stake_axs", 0))
    /\ CountCalls(bot.log, "stake_axs") = 1
    /\ CountCalls(bot.log, "execute_buy") = 1


\* C16: an iteration whose balance read failed with an API error sees the
\* balance 0 and does what an iteration with insufficient funds does: no
\* signal evaluation, no buy, no notification, no entry of the loop-level
\* handler, and a sleep of check_interval.
FailedBalanceIsZero ==
    LET r == RunLog(bot.log)
        head == <<Call("get_balance", 0),
                  Logged("Fehler beim Abrufen des Kontostands"),
                  Ret("get_balance", 0)>>
    IN  HasLogged(bot.log, "Fehler beim Abrufen des Kontostands") =>
            /\ bot.usdt_balance = 0
            /\ bot.pc \in {"sleep_interval", "poll", "done"}
            /\ bot.pc = "sleep_interval" => r = head
            /\ bot.pc \in {"poll", "done"} => r = head \o <<Slept(check_interval)>>

\* an iteration with a failed balance read has slept check_interval, with
\* the notifier enabled
FailedBalanceIterationEnded ==
    /\ bot.telegram /\ bot.running /\ bot.pc = "poll"
    /\ HasLogged(bot.log, "Fehler beim Abrufen des Kontostands")
    /\ bot.log[Len(bot.log)] = Slept(check_interval)


\* C17: an order is submitted to the exchange only after the price fetch of
\* place_market_buy returned a non-zero price; when that fetch returned 0
\* no order is submitted, execute_buy returns None, and the iteration
\* calls neither withdraw nor stake.
NoOrderWithoutPrice ==
    LET log == bot.log IN
    \A i \in 1..Len(log) :
        /\ IsStageCall(log[i], "order_market_buy") =>
              \E j \in 1..(i - 1) :
                  /\ IsRet(log[j], "get_current_price") /\ log[j][3] # 0
                  /\ \E k \in 1..(j - 1) : IsStageCall(log[k], "place_market_buy")
        /\ log[i] = Ret("get_current_price", 0) =>
              /\ \A n \in {"order_market_buy", "transfer_to_ronin", "withdraw",
                           "stake_axs", "stake"} : ~HasCall(log, n)
              /\ Has(log, Ret("execute_buy", 0))
              /\ bot.order = NoOrder
              /\ bot.pc \in {"sleep_interval", "poll", "done"}

\* the price fetch of the buy failed in the second iteration, and the
\* iteration has slept check_interval
PricelessBuyIterationEnded ==
    /\ bot.iter = 2 /\ bot.pc = "poll"
    /\ Has(bot.log, Ret("get_current_price", 0))
    /\ bot.log[Len(bot.log)] = Slept(check_interval)


\* C18: the quantity place_market_buy submits, rounded to the lot step,
\* costs at the fetched price no more than the quote amount:
\* quantity * price <= usdt_amount.
BuyNeverOverspends ==
    lot.pc = "out" =>
        lot.quantity * lot.price <= lot.amount * Pow10(lot.places)

====
